---- MODULE Spec2Model ----
(***************************************************************************)
(* A model of the LINE ledger bot (src/app.py): the text normalizer, the   *)
(* restricted arithmetic evaluator, the command parser, the sheet-backed   *)
(* record writer and aggregator, and the message handler.                  *)
(*                                                                         *)
(* Conventions.  A text is a sequence of characters; a character is a      *)
(* one-character string, and a character outside ASCII is written by its   *)
(* code point ("U+FF0B").  A float is modelled by the exact rational       *)
(* <<numerator, denominator>> in lowest terms with a positive denominator. *)
(* A sheet is the sequence of its rows, the header row first; a cell is a  *)
(* text name, a rational, or a string that float() cannot parse.           *)
(***************************************************************************)
EXTENDS Integers, Sequences, FiniteSets, TLC

VARIABLES sheet, now, last, evalIn, evalOut, aggOut

vars == <<sheet, now, last, evalIn, evalOut, aggOut>>

(***************************************************************************)
(* Characters                                                              *)
(***************************************************************************)

\* The printable ASCII characters in code order: Ascii[i] has code 31 + i.
\* The quotation mark, the backslash and the grave accent are written by their code points.
Ascii ==
  <<" ", "!", "U+0022", "#", "$", "%", "&", "'", "(", ")", "*", "+", ",", "-",
    ".", "/", "0", "1", "2", "3", "4", "5", "6", "7", "8", "9", ":", ";",
    "<", "=", ">", "?", "@", "A", "B", "C", "D", "E", "F", "G", "H", "I",
    "J", "K", "L", "M", "N", "O", "P", "Q", "R", "S", "T", "U", "V", "W",
    "X", "Y", "Z", "[", "U+005C", "]", "^", "_", "U+0060", "a", "b", "c", "d", "e",
    "f", "g", "h", "i", "j", "k", "l", "m", "n", "o", "p", "q", "r", "s",
    "t", "u", "v", "w", "x", "y", "z", "{", "|", "}", "~">>

\* The characters outside ASCII that the model's texts use, with their codes:
\* ideographic space, full-width plus, full-width one, and the ideographs of
\* the two Chinese keywords and of a memo.
WideCode ==
  [c \in {"U+3000", "U+FF0B", "U+FF11", "U+9918", "U+984D", "U+5831",
          "U+8868", "U+5348"} |->
     CASE c = "U+3000" -> 12288
       [] c = "U+FF0B" -> 65291
       [] c = "U+FF11" -> 65297
       [] c = "U+9918" -> 39192
       [] c = "U+984D" -> 38989
       [] c = "U+5831" -> 22577
       [] c = "U+8868" -> 34920
       [] c = "U+5348" -> 21320]

ord(ch) ==
  IF ch \in DOMAIN WideCode THEN WideCode[ch]
  ELSE 31 + (CHOOSE i \in 1..Len(Ascii) : Ascii[i] = ch)

chr(code) ==
  IF code >= 32 /\ code <= 126 THEN Ascii[code - 31]
  ELSE CHOOSE c \in DOMAIN WideCode : WideCode[c] = code

Digits == {"0", "1", "2", "3", "4", "5", "6", "7", "8", "9"}

isdigit(ch) == ch \in Digits

\* str.strip() with no argument removes Unicode whitespace; of the model's
\* characters these are the space and the ideographic space.
isspace(ch) == ch \in {" ", "U+3000"}

RECURSIVE lstrip(_)
lstrip(s) ==
  IF s # <<>> /\ isspace(Head(s)) THEN lstrip(Tail(s)) ELSE s

RECURSIVE rstrip(_)
rstrip(s) ==
  IF s # <<>> /\ isspace(s[Len(s)]) THEN rstrip(SubSeq(s, 1, Len(s) - 1)) ELSE s

strip(s) == rstrip(lstrip(s))

\* str.lower() : the ASCII capitals move up by 32, the model's other
\* characters have no lower-case form.
lower_char(ch) ==
  IF ch \in DOMAIN WideCode THEN ch
  ELSE IF ord(ch) >= 65 /\ ord(ch) <= 90 THEN chr(ord(ch) + 32) ELSE ch

lower(s) == [i \in 1..Len(s) |-> lower_char(s[i])]

\* str.replace(" ", "")
remove_spaces(s) == SelectSeq(s, LAMBDA c : c # " ")

(***************************************************************************)
(* to_halfwidth                                                            *)
(***************************************************************************)

to_halfwidth_char(ch) ==
  LET code == ord(ch)
  IN  IF code = 12288 THEN " "
      ELSE IF 65281 <= code /\ code <= 65374 THEN chr(code - 65248)
      ELSE ch

to_halfwidth(s) == [i \in 1..Len(s) |-> to_halfwidth_char(s[i])]

(***************************************************************************)
(* Floats as exact rationals                                               *)
(***************************************************************************)

Abs(n) == IF n < 0 THEN -n ELSE n

RECURSIVE GCD(_, _)
GCD(a, b) == IF b = 0 THEN a ELSE GCD(b, a % b)

Rat(n, d) ==
  LET g == GCD(Abs(n), Abs(d))
      s == IF d < 0 THEN -1 ELSE 1
  IN  <<(s * n) \div g, (s * d) \div g>>

RInt(n) == <<n, 1>>

RAdd(a, b) == Rat(a[1] * b[2] + b[1] * a[2], a[2] * b[2])
RSub(a, b) == Rat(a[1] * b[2] - b[1] * a[2], a[2] * b[2])
RMul(a, b) == Rat(a[1] * b[1], a[2] * b[2])
RDiv(a, b) == Rat(a[1] * b[2], a[2] * b[1])
RNeg(a) == <<-a[1], a[2]>>

RECURSIVE Pow10(_)
Pow10(k) == IF k = 0 THEN 1 ELSE 10 * Pow10(k - 1)

(***************************************************************************)
(* ast.parse(expr, mode="eval") on texts over Lexicon.  Tokens follow      *)
(* CPython's tokenizer, the grammar is Python's expression grammar cut to  *)
(* the rules these tokens can reach.                                       *)
(***************************************************************************)

At(s, i) == IF i >= 1 /\ i <= Len(s) THEN s[i] ELSE "EOF"

\* The lexicon: the evaluator's inputs are texts over these characters and
\* the space.  Of the letters only the exponent marker is in it, so no
\* keyword, radix prefix or imaginary suffix can be spelled.
Lexicon == Digits \cup {".", "_", "e", "E", "+", "-", "*", "/", "(", ")"}

IsNameStart(ch) == ch \in {"e", "E", "_"}

IsNameChar(ch) == IsNameStart(ch) \/ isdigit(ch)

\* The index after the digit part digit (["_"] digit)* that starts at i.
RECURSIVE DigitPartEnd(_, _)
DigitPartEnd(s, i) ==
  IF isdigit(At(s, i + 1)) THEN DigitPartEnd(s, i + 1)
  ELSE IF At(s, i + 1) = "_" /\ isdigit(At(s, i + 2)) THEN DigitPartEnd(s, i + 2)
  ELSE i + 1

RECURSIVE NameEnd(_, _)
NameEnd(s, i) == IF IsNameChar(At(s, i)) THEN NameEnd(s, i + 1) ELSE i

\* The digits of s[i..j-1], underscores dropped.
DigitsOf(s, i, j) == SelectSeq(SubSeq(s, i, j - 1), isdigit)

DigitVal(ch) == ord(ch) - 48

RECURSIVE IntOf(_)
IntOf(ds) ==
  IF ds = <<>> THEN 0
  ELSE 10 * IntOf(SubSeq(ds, 1, Len(ds) - 1)) + DigitVal(ds[Len(ds)])

\* mant * 10^expo.
Scale(mant, expo) ==
  IF expo < 0 THEN RDiv(mant, RInt(Pow10(-expo))) ELSE RMul(mant, RInt(Pow10(expo)))

\* The literal with integer digits intDs, fraction digits fracDs and exponent
\* expo, that ends before index q.  A decimal integer with a leading zero
\* that is not zero, and a literal that runs into a name character, are
\* SyntaxErrors.
NumberToken(s, intDs, fracDs, isFloat, q, expo) ==
  [ok |-> /\ ~IsNameStart(At(s, q))
          /\ (isFloat \/ intDs[1] # "0" \/ \A n \in 1..Len(intDs) : intDs[n] = "0"),
   val |-> Scale(Rat(IntOf(intDs \o fracDs), Pow10(Len(fracDs))), expo),
   end |-> q]

\* The exponent, if there is one at index k: ("e" | "E") ["+" | "-"] digitpart.
LexExponent(s, intDs, fracDs, hasDot, k) ==
  LET p == IF At(s, k + 1) \in {"+", "-"} THEN k + 2 ELSE k + 1
      hasExp == At(s, k) \in {"e", "E"} /\ isdigit(At(s, p))
      q == IF hasExp THEN DigitPartEnd(s, p) ELSE k
      expo == IF hasExp THEN IntOf(DigitsOf(s, p, q)) ELSE 0
  IN  NumberToken(s, intDs, fracDs, hasDot \/ hasExp, q,
                  IF At(s, k + 1) = "-" THEN -expo ELSE expo)

\* The index after the fraction "." [digitpart], if there is one at index j.
FractionEnd(s, j) ==
  IF At(s, j) # "." THEN j
  ELSE IF isdigit(At(s, j + 1)) THEN DigitPartEnd(s, j + 1)
  ELSE j + 1

\* The integer part is s[i..j-1]; the fraction, if any, starts at j.
LexFraction(s, i, j, k) ==
  LexExponent(s, DigitsOf(s, i, j), DigitsOf(s, j + 1, k), At(s, j) = ".", k)

\* The number literal that starts at i (a digit, or "." before a digit):
\* [ok, val, end].
LexNumber(s, i) ==
  LET j == IF At(s, i) = "." THEN i ELSE DigitPartEnd(s, i)
  IN  LexFraction(s, i, j, FractionEnd(s, j))

\* The tokens of s from index i on: [ok, toks], ok false on a SyntaxError.
RECURSIVE Lex(_, _)
Lex(s, i) ==
  LET c == At(s, i)
      c2 == At(s, i + 1)
      BadToken == [ok |-> FALSE, toks |-> <<>>]
      Cons(k, v, j) ==
        LET rest == Lex(s, j)
        IN  IF rest.ok THEN [ok |-> TRUE, toks |-> <<[k |-> k, v |-> v]>> \o rest.toks]
            ELSE BadToken
  IN  IF i > Len(s) THEN [ok |-> TRUE, toks |-> <<>>]
      ELSE IF isdigit(c) \/ (c = "." /\ isdigit(c2)) THEN
        LET n == LexNumber(s, i)
        IN  IF n.ok THEN Cons("NUMBER", n.val, n.end) ELSE BadToken
      ELSE IF IsNameStart(c) THEN Cons("NAME", <<0, 1>>, NameEnd(s, i))
      ELSE IF c = "." /\ c2 = "." /\ At(s, i + 2) = "." THEN Cons("...", <<0, 1>>, i + 3)
      ELSE IF c = "*" /\ c2 = "*" THEN Cons("**", <<0, 1>>, i + 2)
      ELSE IF c = "/" /\ c2 = "/" THEN Cons("//", <<0, 1>>, i + 2)
      ELSE IF c \in {"+", "-", "*", "/", "(", ")", "."} THEN Cons(c, <<0, 1>>, i + 1)
      ELSE BadToken

Kind(toks, i) == IF i >= 1 /\ i <= Len(toks) THEN toks[i].k ELSE "EOF"

\* Expression trees.  A node outside the evaluator's reach keeps its kind only.
Constant(v) == [t |-> "Constant", op |-> "", v |-> v, kids |-> <<>>]
BinOp(op, l, r) == [t |-> "BinOp", op |-> op, v |-> <<0, 1>>, kids |-> <<l, r>>]
UnaryOp(op, x) == [t |-> "UnaryOp", op |-> op, v |-> <<0, 1>>, kids |-> <<x>>]
Other(t, kids) == [t |-> t, op |-> "", v |-> <<0, 1>>, kids |-> kids]

BinOpName == [c \in {"+", "-", "*", "/", "//", "**"} |->
  CASE c = "+" -> "Add" [] c = "-" -> "Sub" [] c = "*" -> "Mult"
    [] c = "/" -> "Div" [] c = "//" -> "FloorDiv" [] c = "**" -> "Pow"]

NoNode == Other("", <<>>)

Fail == [ok |-> FALSE, node |-> NoNode, pos |-> 0]
Got(node, pos) == [ok |-> TRUE, node |-> node, pos |-> pos]

\* The expression grammar, one case per rule.  A rule reads toks from index
\* i on; the "_rest" rules and "trailers" extend the operand `left` that was
\* read before them.
\*   sum:     term (('+' | '-') term)*
\*   term:    factor (('*' | '/' | '//') factor)*
\*   factor:  ('+' | '-') factor | power
\*   power:   primary ['**' factor]
\*   primary: atom ('(' [argument] ')' | '.' NAME)*
\*   argument: sum | '*' sum | '**' sum
\*   atom:    NUMBER | NAME | '...' | '(' ')' | '(' sum ')'
RECURSIVE Parse(_, _, _, _)
Parse(rule, toks, left, i) ==
  CASE rule = "sum" ->
         LET l == Parse("term", toks, NoNode, i)
         IN  IF l.ok THEN Parse("sum_rest", toks, l.node, l.pos) ELSE Fail
    [] rule = "sum_rest" ->
         IF Kind(toks, i) \in {"+", "-"} THEN
           LET r == Parse("term", toks, NoNode, i + 1)
           IN  IF r.ok
               THEN Parse("sum_rest", toks,
                          BinOp(BinOpName[Kind(toks, i)], left, r.node), r.pos)
               ELSE Fail
         ELSE Got(left, i)
    [] rule = "term" ->
         LET l == Parse("factor", toks, NoNode, i)
         IN  IF l.ok THEN Parse("term_rest", toks, l.node, l.pos) ELSE Fail
    [] rule = "term_rest" ->
         IF Kind(toks, i) \in {"*", "/", "//"} THEN
           LET r == Parse("factor", toks, NoNode, i + 1)
           IN  IF r.ok
               THEN Parse("term_rest", toks,
                          BinOp(BinOpName[Kind(toks, i)], left, r.node), r.pos)
               ELSE Fail
         ELSE Got(left, i)
    [] rule = "factor" ->
         IF Kind(toks, i) \in {"+", "-"} THEN
           LET x == Parse("factor", toks, NoNode, i + 1)
           IN  IF x.ok
               THEN Got(UnaryOp(IF Kind(toks, i) = "+" THEN "UAdd" ELSE "USub", x.node),
                        x.pos)
               ELSE Fail
         ELSE
           LET a == Parse("atom", toks, NoNode, i)
               b == IF a.ok THEN Parse("trailers", toks, a.node, a.pos) ELSE Fail
           IN  IF ~b.ok THEN Fail
               ELSE IF Kind(toks, b.pos) = "**" THEN
                 LET e == Parse("factor", toks, NoNode, b.pos + 1)
                 IN  IF e.ok THEN Got(BinOp("Pow", b.node, e.node), e.pos) ELSE Fail
               ELSE b
    [] rule = "trailers" ->
         IF Kind(toks, i) = "(" THEN
           IF Kind(toks, i + 1) = ")"
           THEN Parse("trailers", toks, Other("Call", <<left>>), i + 2)
           ELSE
             LET from == IF Kind(toks, i + 1) \in {"*", "**"} THEN i + 2 ELSE i + 1
                 arg == Parse("sum", toks, NoNode, from)
             IN  IF arg.ok /\ Kind(toks, arg.pos) = ")"
                 THEN Parse("trailers", toks, Other("Call", <<left, arg.node>>),
                            arg.pos + 1)
                 ELSE Fail
         ELSE IF Kind(toks, i) = "." THEN
           IF Kind(toks, i + 1) = "NAME"
           THEN Parse("trailers", toks, Other("Attribute", <<left>>), i + 2)
           ELSE Fail
         ELSE Got(left, i)
    [] rule = "atom" ->
         LET k == Kind(toks, i)
         IN  IF k = "NUMBER" THEN Got(Constant(toks[i].v), i + 1)
             ELSE IF k = "NAME" THEN Got(Other("Name", <<>>), i + 1)
             ELSE IF k = "..." THEN Got(Other("Ellipsis", <<>>), i + 1)
             ELSE IF k = "(" THEN
               IF Kind(toks, i + 1) = ")" THEN Got(Other("Tuple", <<>>), i + 2)
               ELSE
                 LET e == Parse("sum", toks, NoNode, i + 1)
                 IN  IF e.ok /\ Kind(toks, e.pos) = ")" THEN Got(e.node, e.pos + 1)
                     ELSE Fail
             ELSE Fail

\* ast.parse(expr, mode="eval").body, or a SyntaxError.
parse_tokens(lexed) ==
  IF ~lexed.ok THEN Fail
  ELSE LET e == Parse("sum", lexed.toks, NoNode, 1)
       IN  IF e.ok /\ e.pos = Len(lexed.toks) + 1 THEN e ELSE Fail

ast_parse(expr) == parse_tokens(Lex(expr, 1))

(***************************************************************************)
(* safe_eval                                                               *)
(***************************************************************************)

\* A call's outcome: a value, or the exception it raised.
Value(v) == [ok |-> TRUE, v |-> v, err |-> ""]
Raise(e) == [ok |-> FALSE, v |-> <<0, 1>>, err |-> e]

\* The operator module's binary functions.  A division raises
\* ZeroDivisionError on a zero divisor.
apply_op(fn, a, b) ==
  CASE fn = "add" -> Value(RAdd(a, b))
    [] fn = "sub" -> Value(RSub(a, b))
    [] fn = "mul" -> Value(RMul(a, b))
    [] fn = "truediv" -> IF b[1] = 0 THEN Raise("ZeroDivisionError") ELSE Value(RDiv(a, b))
    [] fn = "floordiv" ->
         IF b[1] = 0 THEN Raise("ZeroDivisionError")
         ELSE Value(RInt(RDiv(a, b)[1] \div RDiv(a, b)[2]))

apply_unary(fn, a) == IF fn = "neg" THEN Value(RNeg(a)) ELSE Value(a)

\* A table that also admits floor division.
allowed_ops_with_floordiv ==
  [o \in {"Add", "Sub", "Mult", "Div", "FloorDiv"} |->
    CASE o = "Add" -> "add" [] o = "Sub" -> "sub" [] o = "Mult" -> "mul"
      [] o = "Div" -> "truediv" [] o = "FloorDiv" -> "floordiv"]

allowed_ops ==
  [o \in {"Add", "Sub", "Mult", "Div"} |->
    CASE o = "Add" -> "add" [] o = "Sub" -> "sub" [] o = "Mult" -> "mul"
      [] o = "Div" -> "truediv"]

allowed_unary ==
  [o \in {"UAdd", "USub"} |-> IF o = "UAdd" THEN "pos" ELSE "neg"]

\* The tree walk: the operator is checked before the operands are evaluated,
\* the left operand is evaluated before the right one, and the first
\* exception ends the walk.
RECURSIVE _eval(_)
_eval(node) ==
  IF node.t = "Constant" THEN Value(node.v)
  ELSE IF node.t = "BinOp" THEN
    IF node.op \notin DOMAIN allowed_ops THEN Raise("ValueError")
    ELSE
      LET l == _eval(node.kids[1])
      IN  IF ~l.ok THEN l
          ELSE LET r == _eval(node.kids[2])
               IN  IF ~r.ok THEN r ELSE apply_op(allowed_ops[node.op], l.v, r.v)
  ELSE IF node.t = "UnaryOp" THEN
    IF node.op \notin DOMAIN allowed_unary THEN Raise("ValueError")
    ELSE
      LET x == _eval(node.kids[1])
      IN  IF ~x.ok THEN x ELSE apply_unary(allowed_unary[node.op], x.v)
  ELSE Raise("ValueError")

\* _eval(tree.body), when ast.parse gave a tree.
eval_body(tree) == IF ~tree.ok THEN Raise("SyntaxError") ELSE _eval(tree.node)

safe_eval(expr) ==
  LET e == remove_spaces(expr)
  IN  IF e = <<>> THEN Raise("ValueError") ELSE eval_body(ast_parse(e))

(***************************************************************************)
(* parse_transaction                                                       *)
(***************************************************************************)

allowed_chars == Digits \cup {"+", "-", "*", "/", "(", ")", ".", " "}

DefaultMemo == <<"U+7121", "U+5099", "U+8A3B">>

\* The longest prefix of s made of allowed characters.
RECURSIVE expr_prefix(_)
expr_prefix(s) ==
  IF s # <<>> /\ Head(s) \in allowed_chars THEN <<Head(s)>> \o expr_prefix(Tail(s))
  ELSE <<>>

Parsed(amount, memo, expr) ==
  [ok |-> TRUE, amount |-> amount, memo |-> memo, expr |-> expr, err |-> ""]

NotParsed(e) ==
  [ok |-> FALSE, amount |-> <<0, 1>>, memo |-> <<>>, expr |-> <<>>, err |-> e]

\* The end of parse_transaction: safe_eval's exception goes on to the caller.
parsed_amount(amount, memo, expr_str) ==
  IF ~amount.ok THEN NotParsed(amount.err)
  ELSE Parsed(amount.v, IF memo = <<>> THEN DefaultMemo ELSE memo, expr_str)

\* parse_transaction from the split into expression and memo on.
parse_split(expr_str, memo) ==
  IF expr_str = <<>> \/ ~(\E i \in 1..Len(expr_str) : isdigit(expr_str[i]))
  THEN NotParsed("ValueError")
  ELSE parsed_amount(safe_eval(expr_str), memo, expr_str)

\* A parser that does not ask for the leading sign.
parse_transaction_unsigned(text) ==
  LET s == to_halfwidth(strip(text))
      expr_chars == expr_prefix(s)
  IN  parse_split(strip(expr_chars), strip(SubSeq(s, Len(expr_chars) + 1, Len(s))))

parse_transaction(text) ==
  LET s == to_halfwidth(strip(text))
      expr_chars == expr_prefix(s)
  IN  IF s = <<>> \/ s[1] \notin {"+", "-"} THEN NotParsed("ValueError")
      ELSE parse_split(strip(expr_chars), strip(SubSeq(s, Len(expr_chars) + 1, Len(s))))

(***************************************************************************)
(* The sheet                                                               *)
(***************************************************************************)

\* A time is <<year, month, day-hour-minute, second>>: strftime's
\* "%Y-%m-%d %H:%M:%S" with the day, hour and minute taken as one field.
\* A time cell that does not have this form is a one-element tuple.
Times == << <<2025, 11, 1, 0>>, <<2025, 12, 1, 0>> >>

\* A cell float() accepts, and one it does not.
Num(v) == [num |-> TRUE, v |-> v]
NotNum == [num |-> FALSE, v |-> <<0, 1>>]

HeaderRow ==
  [time |-> <<"U+6642U+9593">>, uid |-> "U+4F7FU+7528U+8005ID",
   gid |-> "U+7FA4U+7D44ID", amt |-> NotNum,
   memo |-> <<"U+5099", "U+8A3B">>,
   raw |-> <<"U+539F", "U+59CB", "U+6307", "U+4EE4">>]

None == "None"

\* Python truth of an optional string: None and "" are false.
Truthy(x) == x # None /\ x # ""

\* get_sheet() on a reachable store: the sheet, with the header row appended
\* when it was empty.
get_sheet(sh) == IF sh = <<>> THEN <<HeaderRow>> ELSE sh

\* sheet.get_all_records(): the rows under the header row.
get_all_records(sh) == IF sh = <<>> THEN <<>> ELSE Tail(sh)

(***************************************************************************)
(* write_record                                                            *)
(***************************************************************************)

new_row(now_str, user_id, group_id, amount, memo, raw_text) ==
  [time |-> now_str, uid |-> user_id,
   gid |-> IF Truthy(group_id) THEN group_id ELSE "Private",
   amt |-> Num(amount), memo |-> memo, raw |-> raw_text]

\* A writer that puts the new row first under the header.
write_record_first(sh, now_str, user_id, group_id, amount, memo, raw_text) ==
  <<Head(sh), new_row(now_str, user_id, group_id, amount, memo, raw_text)>> \o Tail(sh)

\* The sheet after write_record's append_row.
write_record(sh, now_str, user_id, group_id, amount, memo, raw_text) ==
  Append(sh, new_row(now_str, user_id, group_id, amount, memo, raw_text))

(***************************************************************************)
(* get_transactions_for_context, calc_balance                              *)
(***************************************************************************)

WellFormedTime(t) == Len(t) = 4

\* r_time.startswith(year_month), year_month being <<year, month>>.
startswith(r_time, year_month) ==
  WellFormedTime(r_time) /\ SubSeq(r_time, 1, 2) = year_month

\* strptime then strftime("%m/%d %H:%M"); a time that does not parse is
\* shown as it is.
display_time(r_time) ==
  IF WellFormedTime(r_time) THEN <<r_time[2], r_time[3]>> ELSE r_time

\* The chat filter of get_transactions_for_context.
report_match(row, user_id, group_id) ==
  IF Truthy(group_id) THEN row.gid = group_id
  ELSE row.gid = "Private" /\ row.uid = user_id

\* The loop of get_transactions_for_context over rows[from..], in the order
\* given.
RECURSIVE scan(_, _, _, _, _)
scan(rows, from, user_id, group_id, year_month) ==
  IF from > Len(rows) THEN <<>>
  ELSE
    LET row == rows[from]
        rest == scan(rows, from + 1, user_id, group_id, year_month)
        skip == \/ (year_month # None /\ ~startswith(row.time, year_month))
                \/ ~report_match(row, user_id, group_id)
                \/ ~row.amt.num
    IN  IF skip THEN rest
        ELSE <<[time |-> display_time(row.time), amount |-> row.amt.v,
                memo |-> row.memo]>> \o rest

reversed(seq) == [i \in 1..Len(seq) |-> seq[Len(seq) + 1 - i]]

\* The scan without the reversal.
get_transactions_oldest_first(sh, user_id, group_id, year_month) ==
  scan(get_all_records(sh), 1, user_id, group_id, year_month)

get_transactions_for_context(sh, user_id, group_id, year_month) ==
  scan(reversed(get_all_records(sh)), 1, user_id, group_id, year_month)

\* A chat filter that leaves out the user test of a private chat.
balance_match_any_user(row, user_id, group_id) ==
  IF Truthy(group_id) THEN row.gid = group_id ELSE row.gid = "Private"

\* The chat filter of calc_balance.
balance_match(row, user_id, group_id) ==
  IF Truthy(group_id) THEN row.gid = group_id
  ELSE row.gid = "Private" /\ row.uid = user_id

\* calc_balance's loop over rows[1..n].
RECURSIVE balance_loop(_, _, _, _)
balance_loop(rows, n, user_id, group_id) ==
  IF n = 0 THEN <<0, 1>>
  ELSE
    LET bal == balance_loop(rows, n - 1, user_id, group_id)
        row == rows[n]
    IN  IF row.amt.num /\ balance_match(row, user_id, group_id)
        THEN RAdd(bal, row.amt.v) ELSE bal

calc_balance(sh, user_id, group_id) ==
  LET rows == get_all_records(sh)
  IN  balance_loop(rows, Len(rows), user_id, group_id)

(***************************************************************************)
(* handle_message                                                          *)
(***************************************************************************)

\* round(x, 2): to the nearest hundredth, a tie to the even one.
round2(x) ==
  LET n == 100 * x[1]
      q == n \div x[2]
      r == n - q * x[2]
      up == 2 * r > x[2] \/ (2 * r = x[2] /\ q % 2 = 1)
  IN  Rat(IF up THEN q + 1 ELSE q, 100)

RAbs(x) == <<Abs(x[1]), x[2]>>

RECURSIVE sum_amounts(_)
sum_amounts(records) ==
  IF records = <<>> THEN <<0, 1>>
  ELSE RAdd(records[1].amount, sum_amounts(Tail(records)))

RecentLimit == 10

BalanceKeywords ==
  { <<"U+9918", "U+984D">>, <<"b", "a", "l", "a", "n", "c", "e">> }

ReportKeywords ==
  { <<"U+5831", "U+8868">>, <<"r", "e", "p", "o", "r", "t">>, <<"e", "x", "c", "e", "l">> }

\* What one call of handle_message did: the sheet it left, the branch it
\* took, its reply (kind "none" when it sent none), whether it ended in an
\* exception that nothing caught, and the store call that failed, if any.
Outcome(sh, route, kind, val, recs, count, uncaught, hit) ==
  [sheet |-> sh, route |-> route, kind |-> kind, val |-> val, recs |-> recs,
   count |-> count, uncaught |-> uncaught, hit |-> hit]

Reply(sh, route, kind, val) == Outcome(sh, route, kind, val, <<>>, 0, FALSE, "none")

Unavailable(sh, route, hit) ==
  Outcome(sh, route, "unavailable", <<0, 1>>, <<>>, 0, FALSE, hit)

\* The handler returned or was left by an exception, with no reply sent.
Silent(sh, route, uncaught, hit) ==
  Outcome(sh, route, "none", <<0, 1>>, <<>>, 0, uncaught, hit)

\* The group id the handler works with: the source's group id in a group,
\* None in a room and in a one-to-one chat.
source_group_id(ev) == IF ev.type = "group" THEN ev.id ELSE None

is_balance_query(text) == text \in BalanceKeywords

is_report_query(text) == lower(strip(text)) \in ReportKeywords

\* Commands that record: full-width "+1", and "-2*3x".
RecordingTexts ==
  { <<"U+FF0B", "U+FF11">>, <<"-", "2", "*", "3", "x">> }

\* Texts that are no command: no sign, no digit, a division by zero, a power,
\* a trailing operator.
IgnoredTexts ==
  { <<"1", "x">>, <<"+">>, <<"+", "1", "/", "0">>, <<"+", "2", "*", "*", "2">>,
    <<"+", "1", "+">> }

KeywordTexts ==
  { <<"U+9918", "U+984D">>, <<"b", "a", "l", "a", "n", "c", "e">>,
    <<"B", "a", "l", "a", "n", "c", "e">>,
    <<"U+5831", "U+8868">>, <<"r", "e", "p", "o", "r", "t">>,
    <<"E", "X", "C", "E", "L">> }

Texts == RecordingTexts \cup IgnoredTexts \cup KeywordTexts

\* parse_transaction and the report test on the model's texts, computed once.
ParseMemo == [t \in Texts |-> parse_transaction(t)]

ReportMemo == [t \in Texts |-> is_report_query(t)]

parse_transaction_of(text) == ParseMemo[text]

is_report_query_of(text) == ReportMemo[text]

\* The balance reply for the rounded balance.
balance_reply(sh, bal_rounded) ==
  IF bal_rounded[1] > 0 THEN Reply(sh, "balance", "owed", bal_rounded)
  ELSE IF bal_rounded[1] < 0 THEN Reply(sh, "balance", "owes", RAbs(bal_rounded))
  ELSE Reply(sh, "balance", "even", <<0, 1>>)

balance_branch(sh, user_id, group_id, fault) ==
  IF fault = "open" THEN Unavailable(sh, "balance", "open")
  ELSE IF fault = "scan" THEN Silent(get_sheet(sh), "balance", TRUE, "scan")
  ELSE balance_reply(get_sheet(sh),
                     round2(calc_balance(get_sheet(sh), user_id, group_id)))

\* The report reply for the month's records of the chat.
report_reply(sh, all_records) ==
  IF all_records = <<>>
  THEN Outcome(sh, "report", "no_records", <<0, 1>>, <<>>, 0, FALSE, "none")
  ELSE Outcome(sh, "report", "report", sum_amounts(all_records),
               SubSeq(all_records, 1,
                      IF Len(all_records) > RecentLimit THEN RecentLimit
                      ELSE Len(all_records)),
               Len(all_records), FALSE, "none")

report_branch(sh, time, user_id, group_id, fault) ==
  IF fault = "open" THEN Unavailable(sh, "report", "open")
  ELSE IF fault = "scan" THEN Silent(get_sheet(sh), "report", TRUE, "scan")
  ELSE report_reply(get_sheet(sh),
                    get_transactions_for_context(get_sheet(sh), user_id, group_id,
                                                 <<time[1], time[2]>>))

\* The try block after the parse: `written` is the sheet after append_row.
record_and_reply(sh, written, user_id, group_id, fault) ==
  IF fault = "open" THEN Unavailable(sh, "transaction", "open")
  ELSE IF fault = "append" THEN Silent(get_sheet(sh), "transaction", FALSE, "append")
  ELSE IF fault = "reopen" THEN Unavailable(written, "transaction", "reopen")
  ELSE IF fault = "scan" THEN Silent(written, "transaction", FALSE, "scan")
  ELSE Reply(written, "transaction", "recorded", calc_balance(written, user_id, group_id))

\* The try block, p being what parse_transaction gave.
try_record(sh, time, text, user_id, group_id, fault, p) ==
  IF ~p.ok THEN Silent(sh, "transaction", FALSE, "none")
  ELSE record_and_reply(sh,
         write_record(get_sheet(sh), time, user_id, group_id, p.amount, p.memo, text),
         user_id, group_id, fault)

transaction_branch(sh, time, text, user_id, group_id, fault) ==
  try_record(sh, time, text, user_id, group_id, fault, parse_transaction_of(text))

\* handle_message once the text is stripped.
dispatch(sh, time, text, user_id, group_id, fault) ==
  IF is_balance_query(text) THEN balance_branch(sh, user_id, group_id, fault)
  ELSE IF is_report_query_of(text) THEN report_branch(sh, time, user_id, group_id, fault)
  ELSE transaction_branch(sh, time, text, user_id, group_id, fault)

handle_message(sh, time, ev, fault) ==
  dispatch(sh, time, strip(ev.text), ev.user, source_group_id(ev), fault)

(***************************************************************************)
(* The bot: messages arrive one at a time, the clock moves on.             *)
(***************************************************************************)

\* The most records the sheet holds.
MaxStore == 2

Users == {"U1", "U2"}

\* The chats a message can come from: a one-to-one chat, a group, a room.
Sources ==
  { [type |-> "user", id |-> None], [type |-> "group", id |-> "G1"],
    [type |-> "room", id |-> "R1"] }

Events ==
  { [user |-> u, type |-> src.type, id |-> src.id, text |-> t] :
      u \in Users, src \in Sources, t \in Texts }

\* The store calls that can fail while one message is handled: opening the
\* sheet, appending the row, opening the sheet again for the balance,
\* reading the rows.
Faults == {"none", "open", "append", "reopen", "scan"}

NoEvent == [user |-> "", type |-> "", id |-> None, text |-> <<>>]

\* No message is being handled.
Idle == [ev |-> NoEvent]

\* A variable the specification at hand does not use.
Unused == "unused"

NotEvaluated == [done |-> FALSE]

NotQueried == [done |-> FALSE]

Init ==
  /\ sheet = <<>>
  /\ now = 1
  /\ last = Idle
  /\ evalIn = Unused
  /\ evalOut = Unused
  /\ aggOut = Unused

\* The webhook delivers one text message and handle_message runs to its end.
Handle(ev, out) ==
  /\ Len(get_all_records(out.sheet)) <= MaxStore
  /\ sheet' = out.sheet
  /\ last' = [ev |-> ev, out |-> [f \in DOMAIN out \ {"sheet"} |-> out[f]],
              before |-> sheet]

HandleMessage ==
  /\ last = Idle
  /\ \E ev \in Events, fault \in Faults :
       Handle(ev, handle_message(sheet, Times[now], ev, fault))
  /\ UNCHANGED <<now, evalIn, evalOut, aggOut>>

\* callback() returns and the bot waits for the next message.
Return ==
  /\ last # Idle
  /\ last' = Idle
  /\ UNCHANGED <<sheet, now, evalIn, evalOut, aggOut>>

\* The clock reaches the next of the model's times.
Tick ==
  /\ last = Idle
  /\ now < Len(Times)
  /\ now' = now + 1
  /\ UNCHANGED <<sheet, last, evalIn, evalOut, aggOut>>

Next == HandleMessage \/ Return \/ Tick

Spec == Init /\ [][Next]_vars

(***************************************************************************)
(* The evaluator and the parser on every short text                        *)
(***************************************************************************)

\* The longest text given to the evaluator.
MaxLen == 4

EvalChars == {"0", "1", ".", "+", "-", "*", "/", "(", ")", " ", "_"}

RECURSIVE TextsUpTo(_)
TextsUpTo(n) ==
  IF n = 0 THEN {<<>>}
  ELSE LET shorter == TextsUpTo(n - 1)
       IN  shorter \cup {Append(t, c) : t \in shorter, c \in EvalChars}

\* Longer commands: a power, a floor division, a call, a parenthesised sum
\* with inner spaces.
LongerTexts ==
  { <<"+", "2", "*", "*", "2">>, <<"-", "1", "/", "/", "1">>,
    <<"+", "1", "(", "1", ")">>, <<"-", "(", "1", " ", "+", " ", "1", ")", "/", "1", "0">> }

InitEval ==
  /\ sheet = Unused
  /\ now = Unused
  /\ last = Unused
  /\ evalIn \in TextsUpTo(MaxLen) \cup LongerTexts
  /\ evalOut = NotEvaluated
  /\ aggOut = Unused

\* safe_eval and parse_transaction are applied to the text.
Evaluate ==
  /\ ~evalOut.done
  /\ evalOut' = [done |-> TRUE, safe |-> safe_eval(evalIn),
                 parsed |-> parse_transaction(evalIn)]
  /\ UNCHANGED <<sheet, now, last, evalIn, aggOut>>

NextEval == Evaluate

SpecEval == InitEval /\ [][NextEval]_vars

(***************************************************************************)
(* The aggregator on every small sheet                                     *)
(***************************************************************************)

\* The most rows under the header of a sheet given to the aggregator.
MaxRows == 2

\* Rows as the bot writes them, and rows of older data: an empty group cell,
\* an amount cell that is no number.
AggRows ==
  { [time |-> t, uid |-> u, gid |-> g, amt |-> a, memo |-> <<"m">>, raw |-> <<>>] :
      t \in {Times[1], Times[2]}, u \in Users, g \in {"Private", "", "G1"},
      a \in {Num(<<1, 1>>), Num(<<-2, 1>>), NotNum} }

RECURSIVE SheetsUpTo(_)
SheetsUpTo(n) ==
  IF n = 0 THEN {<<HeaderRow>>}
  ELSE LET smaller == SheetsUpTo(n - 1)
       IN  smaller \cup {Append(sh, r) : sh \in smaller, r \in AggRows}

InitAgg ==
  /\ sheet \in SheetsUpTo(MaxRows)
  /\ now = Unused
  /\ last = Unused
  /\ evalIn = Unused
  /\ evalOut = Unused
  /\ aggOut = NotQueried

\* Both scans are run for one chat, the report scan with or without a month.
Query ==
  \E u \in Users, g \in {None, "G1"}, ym \in {None, <<2025, 11>>} :
    /\ aggOut' = [done |-> TRUE, user |-> u, group |-> g, month |-> ym,
                  records |-> get_transactions_for_context(sheet, u, g, ym),
                  bal |-> calc_balance(sheet, u, g)]
    /\ UNCHANGED <<sheet, now, last, evalIn, evalOut>>

NextAgg == Query

SpecAgg == InitAgg /\ [][NextAgg]_vars

(***************************************************************************)
(* Properties                                                              *)
(***************************************************************************)

Handled == last # Idle

TextOf(ev) == strip(ev.text)

RecordsBefore == get_all_records(last.before)

RecordsNow == get_all_records(sheet)

RECURSIVE SumOf(_)
SumOf(rows) ==
  IF rows = <<>> THEN <<0, 1>> ELSE RAdd(SumOf(Tail(rows)), Head(rows).amt.v)

GroupIds == {"G1", "R1"}

\* The sum of the amounts of the rows of a group, and of a user's private rows.
GroupSum(rows, g) == SumOf(SelectSeq(rows, LAMBDA r : r.gid = g))

PrivateSum(rows, u) ==
  SumOf(SelectSeq(rows, LAMBDA r : r.gid = "Private" /\ r.uid = u))

\* The chats a balance can be asked for: <<user, group id>>.
Contexts == {<<u, None>> : u \in Users} \cup {<<"U1", g>> : g \in GroupIds}

\* The chats whose balance a row alone changes.
ContextsOf(row) ==
  {c \in Contexts : calc_balance(<<HeaderRow, row>>, c[1], c[2]) # <<0, 1>>}

IsPrefix(a, b) == Len(a) <= Len(b) /\ SubSeq(b, 1, Len(a)) = a

\* C1: each group's balance is the sum of the rows that carry its id, each
\* user's private balance is the sum of the rows that carry the sentinel and
\* the user's id, no row counts in two chats, a command recorded in a group
\* leaves every private balance as it was, and a command recorded in a
\* one-to-one chat leaves every group's balance and every other user's private
\* balance as it was.
C1_BalancesPartitionTheRecords ==
  /\ \A u \in Users, g \in GroupIds :
       calc_balance(sheet, u, g) = GroupSum(RecordsNow, g)
  /\ \A u \in Users : calc_balance(sheet, u, None) = PrivateSum(RecordsNow, u)
  /\ \A i \in 1..Len(RecordsNow) : Cardinality(ContextsOf(RecordsNow[i])) <= 1
  /\ (Handled /\ Len(RecordsNow) > Len(RecordsBefore) /\ last.ev.type = "group")
       => \A u \in Users :
            calc_balance(sheet, u, None) = calc_balance(last.before, u, None)
  /\ (Handled /\ Len(RecordsNow) > Len(RecordsBefore) /\ last.ev.type = "user")
       => /\ \A g \in GroupIds :
               calc_balance(sheet, last.ev.user, g)
                 = calc_balance(last.before, last.ev.user, g)
          /\ \A u \in Users \ {last.ev.user} :
               calc_balance(sheet, u, None) = calc_balance(last.before, u, None)

\* A command has just been recorded in the group by a user whose private
\* ledger already holds a record, and the two balances differ.
C1_Witness ==
  /\ Handled /\ last.out.kind = "recorded" /\ last.ev.type = "group"
  /\ Len(RecordsNow) = 2
  /\ RecordsNow[1].gid = "Private" /\ RecordsNow[1].uid = last.ev.user
  /\ calc_balance(sheet, last.ev.user, None) # calc_balance(sheet, last.ev.user, "G1")

\* The sheet with every empty group cell replaced by the sentinel.
LegacyAsPrivate(sh) ==
  [i \in 1..Len(sh) |-> IF sh[i].gid = "" THEN [sh[i] EXCEPT !.gid = "Private"] ELSE sh[i]]

\* C2: in a private chat a row with an empty group cell is counted and listed
\* exactly as if it carried the sentinel.
C2_LegacyRowsAreTreatedAsPrivate ==
  (aggOut.done /\ aggOut.group = None)
    => /\ aggOut.bal = calc_balance(LegacyAsPrivate(sheet), aggOut.user, None)
       /\ aggOut.records =
            get_transactions_for_context(LegacyAsPrivate(sheet), aggOut.user, None,
                                         aggOut.month)

\* C3: a command sent in a group or a room is stored under that group's or
\* room's id, and a balance asked for there is the sum of the rows that carry
\* that id.
C3_GroupAndRoomScope ==
  (Handled /\ last.ev.type \in {"group", "room"})
    => /\ last.out.kind = "recorded" => RecordsNow[Len(RecordsNow)].gid = last.ev.id
       /\ last.out.kind \in {"owed", "owes", "even"}
            => last.out.val = RAbs(round2(GroupSum(RecordsNow, last.ev.id)))

\* C4: whenever a store call fails while a message is handled, the reply is
\* the service-unavailable text and the handler does not end in an exception.
C4_StoreFailureIsReported ==
  (Handled /\ last.out.hit # "none")
    => last.out.kind = "unavailable" /\ ~last.out.uncaught

\* The text is no keyword and is no valid command: after normalization it
\* does not start with a sign, or its expression has no digit, or the
\* expression does not evaluate.
NotACommand(text) ==
  LET s == to_halfwidth(strip(text))
      expr == strip(expr_prefix(s))
  IN  /\ ~is_balance_query(text)
      /\ ~is_report_query(text)
      /\ \/ s = <<>>
         \/ s[1] \notin {"+", "-"}
         \/ ~(\E i \in 1..Len(expr) : isdigit(expr[i]))
         \/ ~safe_eval(expr).ok

\* NotACommand and the amount of the expression, on the model's texts.
NotACommandMemo == [t \in Texts |-> NotACommand(t)]

AmountMemo ==
  [t \in Texts |-> safe_eval(strip(expr_prefix(to_halfwidth(strip(t)))))]

\* C5: a message that is no keyword and no valid command appends nothing,
\* leaves the sheet as it was and gets no reply.
C5_InvalidTextIsIgnored ==
  (Handled /\ NotACommandMemo[last.ev.text])
    => /\ sheet = last.before
       /\ last.out.kind = "none"
       /\ ~last.out.uncaught

\* A division by zero has been sent to a sheet that holds a record.
C5_Witness ==
  /\ Handled /\ last.ev.text = <<"+", "1", "/", "0">>
  /\ Len(RecordsNow) >= 1
  /\ last.out.kind = "none"

\* C6: a text that is a balance keyword or a report keyword in any letter
\* case is answered with the balance or the report (or the
\* service-unavailable reply), not parsed as a command, and records nothing.
C6_KeywordsInAnyCase ==
  Handled
    => /\ lower(TextOf(last.ev)) \in BalanceKeywords => last.out.route = "balance"
       /\ lower(TextOf(last.ev)) \in ReportKeywords => last.out.route = "report"
       /\ lower(TextOf(last.ev)) \in BalanceKeywords \cup ReportKeywords
            => RecordsNow = RecordsBefore

EvaluatorChars == Digits \cup {".", "+", "-", "*", "/", "(", ")"}

\* C7: safe_eval returns no value for a text that holds a character outside
\* 0-9 . + - * / ( ).  The space, which safe_eval removes itself before it
\* parses, is not counted as such a character here.
C7_OutsideCharactersAreRejected ==
  (evalOut.done /\ \E i \in 1..Len(evalIn) : evalIn[i] \notin EvaluatorChars \cup {" "})
    => ~evalOut.safe.ok

RECURSIVE Whitelisted(_)
Whitelisted(node) ==
  \/ node.t = "Constant"
  \/ /\ node.t = "BinOp"
     /\ node.op \in {"Add", "Sub", "Mult", "Div"}
     /\ Whitelisted(node.kids[1]) /\ Whitelisted(node.kids[2])
  \/ /\ node.t = "UnaryOp"
     /\ node.op \in {"UAdd", "USub"}
     /\ Whitelisted(node.kids[1])

RECURSIVE HasOp(_, _)
HasOp(node, ops) ==
  \/ node.t = "BinOp" /\ node.op \in ops
  \/ \E i \in 1..Len(node.kids) : HasOp(node.kids[i], ops)

\* The tree of the text as safe_eval parses it, and of the expression of the
\* text taken as a command.
TreeOf(text) == ast_parse(remove_spaces(text))

CommandTreeOf(text) == TreeOf(expr_prefix(to_halfwidth(strip(text))))

C9_AppendOnly ==
  Handled
    => /\ IsPrefix(last.before, sheet)
       /\ IsPrefix(RecordsBefore, RecordsNow)
       /\ last.out.kind = "recorded"
            => /\ Len(RecordsNow) = Len(RecordsBefore) + 1
               /\ LET row == RecordsNow[Len(RecordsNow)]
                  IN  /\ row.uid = last.ev.user
                      /\ row.gid = IF last.ev.type = "group" THEN last.ev.id ELSE "Private"
                      /\ row.amt = Num(AmountMemo[last.ev.text].v)
                      /\ row.memo # <<>>
                      /\ row.raw = TextOf(last.ev)
       /\ (last.out.route # "transaction" \/ NotACommandMemo[last.ev.text])
            => RecordsNow = RecordsBefore

\* A command has been recorded on a sheet that already held a record.
C9_Witness ==
  /\ Handled /\ last.out.kind = "recorded"
  /\ Len(RecordsBefore) >= 1

\* The rows a report query asks for, in append order.
Asked(rows, u, g, ym) ==
  SelectSeq(rows, LAMBDA r : /\ ym = None \/ startswith(r.time, ym)
                             /\ report_match(r, u, g)
                             /\ r.amt.num)

\* C10: the report scan returns the rows asked for, the last appended first,
\* and an empty list when there is none.
C10_MostRecentFirst ==
  aggOut.done
    => LET rows == Asked(get_all_records(sheet), aggOut.user, aggOut.group, aggOut.month)
       IN  /\ Len(aggOut.records) = Len(rows)
           /\ \A k \in 1..Len(rows) :
                LET r == rows[Len(rows) + 1 - k]
                IN  aggOut.records[k] =
                      [time |-> display_time(r.time), amount |-> r.amt.v, memo |-> r.memo]

\* Two rows with different amounts were asked for.
C10_Witness ==
  /\ aggOut.done
  /\ Len(aggOut.records) = 2
  /\ aggOut.records[1].amount # aggOut.records[2].amount

====
